---- MODULE Spec2Model ----
(***************************************************************************)
(* A model of webcolor.js: the 8-bit sRGB colour value object, its string  *)
(* parser and its contrast search.                                         *)
(*                                                                         *)
(* Numbers.  JavaScript numbers are IEEE doubles; here they are fixed      *)
(* point integers:                                                         *)
(*   - a channel r, g, b is held in hundredths   (255 is 25500),           *)
(*   - alpha is held in units of 1/100000        (1 is 100000),            *)
(*   - a relative luminance is held in units of 1/100000,                  *)
(*   - a brightness is held in units of 1/100000 (128 is 12800000),        *)
(*   - a shade amount p is held in tenths        (0.2 is 2),               *)
(*   - a minimum contrast ratio is held in tenths (4.5 is 45).             *)
(* Every operation rounds its result to the nearest unit, as the doubles   *)
(* round to the nearest double.  Equality of two model numbers stands for  *)
(* equality of the two doubles.                                            *)
(***************************************************************************)
EXTENDS Integers, Sequences, FiniteSets, TLC

VARIABLES objs, pc, call, cand, candRef, maxReached, lastStep, seen, ret,
          input, outcome

vars == <<objs, pc, call, cand, candRef, maxReached, lastStep, seen, ret,
          input, outcome>>

(***************************************************************************)
(* Number representation                                                   *)
(***************************************************************************)
\* one channel unit (1.0) in hundredths
ChannelUnit == 100
\* alpha 1.0 in units of 1/100000
AlphaUnit == 100000
\* the value null of the memo fields rl and cb
Null == -1

Max(x, y) == IF x >= y THEN x ELSE y
Min(x, y) == IF x <= y THEN x ELSE y
Abs(x) == IF x < 0 THEN -x ELSE x

\* n / d rounded to the nearest integer, halves up (Math.round), d > 0
RoundDiv(n, d) == (2 * n + d) \div (2 * d)

RECURSIVE SqrtSearch(_, _, _)
SqrtSearch(n, lo, hi) ==
    IF lo >= hi THEN lo
    ELSE LET mid == (lo + hi + 1) \div 2
         IN  IF mid * mid <= n THEN SqrtSearch(n, mid, hi)
                               ELSE SqrtSearch(n, lo, mid - 1)

\* x ** 0.5 rounded to the nearest integer, 0 <= n < 2^31
Sqrt(n) ==
    LET f == SqrtSearch(n, 0, 46340)
    IN  IF n - f * f > f THEN f + 1 ELSE f

(***************************************************************************)
(* The colour value                                                        *)
(***************************************************************************)
\* webcolor.prototype: the defaults r 0, g 0, b 0, a 1, rl null, cb null
prototype ==
    [r |-> 0, g |-> 0, b |-> 0, a |-> AlphaUnit, rl |-> Null, cb |-> Null]

\* new webcolor({...}): the keys present are copied over the defaults.
\* c is a record with any of the fields r, g, b, a.
webcolorFromObject(c) ==
    [k \in DOMAIN prototype |->
        IF k \in (DOMAIN c) \cap {"r", "g", "b", "a"} THEN c[k] ELSE prototype[k]]

rgba(o) == <<o.r, o.g, o.b, o.a>>

\* Math.round of a channel held in hundredths: the integer
roundChannel(x) == RoundDiv(x, ChannelUnit)

\* ((x/255 + 0.055) / 1.055) ^ 2.4, or x/255/12.92 for x/255 <= 0.03928,
\* in units of 1/100000, tabulated at the 256 integer channel values.
LinTable ==
   << 0, 30, 61, 91, 121, 152, 182, 212,
      243, 273, 304, 335, 368, 402, 439, 478,
      518, 561, 605, 651, 700, 750, 802, 857,
      913, 972, 1033, 1096, 1161, 1229, 1298, 1370,
      1444, 1521, 1600, 1681, 1764, 1850, 1938, 2029,
      2122, 2217, 2315, 2416, 2519, 2624, 2732, 2843,
      2956, 3071, 3190, 3310, 3434, 3560, 3689, 3820,
      3955, 4092, 4231, 4374, 4519, 4667, 4817, 4971,
      5127, 5286, 5448, 5613, 5781, 5951, 6125, 6301,
      6480, 6663, 6848, 7036, 7227, 7421, 7619, 7819,
      8022, 8228, 8438, 8650, 8866, 9084, 9306, 9531,
      9759, 9990, 10224, 10462, 10702, 10946, 11193, 11444,
      11697, 11954, 12214, 12477, 12744, 13014, 13287, 13563,
      13843, 14126, 14413, 14703, 14996, 15293, 15593, 15896,
      16203, 16513, 16827, 17144, 17465, 17789, 18116, 18447,
      18782, 19120, 19462, 19807, 20156, 20508, 20864, 21223,
      21586, 21953, 22323, 22697, 23074, 23455, 23840, 24228,
      24620, 25016, 25415, 25818, 26225, 26636, 27050, 27468,
      27889, 28315, 28744, 29177, 29614, 30054, 30499, 30947,
      31399, 31855, 32314, 32778, 33245, 33716, 34191, 34670,
      35153, 35640, 36131, 36625, 37124, 37626, 38133, 38643,
      39157, 39676, 40198, 40724, 41254, 41789, 42327, 42869,
      43415, 43966, 44520, 45079, 45641, 46208, 46778, 47353,
      47932, 48515, 49102, 49693, 50289, 50888, 51492, 52100,
      52712, 53328, 53948, 54572, 55201, 55834, 56471, 57112,
      57758, 58408, 59062, 59720, 60383, 61050, 61721, 62396,
      63076, 63760, 64448, 65141, 65837, 66539, 67244, 67954,
      68669, 69387, 70110, 70838, 71569, 72306, 73046, 73791,
      74540, 75294, 76052, 76815, 77582, 78354, 79130, 79910,
      80695, 81485, 82279, 83077, 83880, 84687, 85499, 86316,
      87137, 87962, 88792, 89627, 90466, 91310, 92158, 93011,
      93869, 94731, 95597, 96469, 97345, 98225, 99110, 100000 >>

\* The linear value R, G or B of one channel x (hundredths, 0 .. 25500):
\* the table, interpolated linearly between two integer channel values.
Linear(x) ==
    LET i == x \div ChannelUnit
        f == x % ChannelUnit
    IN  IF f = 0 THEN LinTable[i + 1]
        ELSE LinTable[i + 1]
             + RoundDiv((LinTable[i + 2] - LinTable[i + 1]) * f, ChannelUnit)

\* (0.2126 * R) + (0.7152 * G) + (0.0722 * B)
computeLuminance(o) ==
    RoundDiv(2126 * Linear(o.r) + 7152 * Linear(o.g) + 722 * Linear(o.b), 10000)

\* (r * 299 + g * 587 + b * 114) / 1000, exact in units of 1/100000
computeBrightness(o) == o.r * 299 + o.g * 587 + o.b * 114

\* getLuminance(): the memo rl when set, else the computed value
getLuminance(o) == IF o.rl = Null THEN computeLuminance(o) ELSE o.rl

\* the object after getLuminance(): rl is set
withRl(o) == [o EXCEPT !.rl = getLuminance(o)]

\* getBrightness(): the memo cb when set, else the computed value
getBrightness(o) == IF o.cb = Null THEN computeBrightness(o) ELSE o.cb

\* getBrightness storing into b instead of cb
withCbWrongField(o) == [o EXCEPT !.b = getBrightness(o)]

\* the object after getBrightness(): cb is set
withCb(o) == [o EXCEPT !.cb = getBrightness(o)]

\* isDark with <= for <
isDarkInclusive(o) == getBrightness(o) <= 128 * AlphaUnit

\* isDark(): brightness < 128
isDark(o) == getBrightness(o) < 128 * AlphaUnit

\* isWhite(): r, g and b all 0 (the names are as in the source)
isWhite(o) == o.r = 0 /\ o.g = 0 /\ o.b = 0

\* isBlack(): r, g and b all 255
isBlack(o) == o.r = 255 * ChannelUnit /\ o.g = 255 * ChannelUnit /\ o.b = 255 * ChannelUnit

\* contrastRatio: (max(l0, l1) + 0.05) / (min(l0, l1) + 0.05), kept as the
\* fraction num / den of two luminances in units of 1/100000
contrastRatio(o, c1) ==
    LET l0 == getLuminance(o)
        l1 == getLuminance(c1)
    IN  [num |-> Max(l0, l1) + 5000, den |-> Min(l0, l1) + 5000]

\* ratio < cmin, ratio > cmin, ratio >= cmin for cmin in tenths
RatioLess(ratio, cmin) == 10 * ratio.num < cmin * ratio.den
RatioGreater(ratio, cmin) == 10 * ratio.num > cmin * ratio.den
RatioAtLeast(ratio, cmin) == ~RatioLess(ratio, cmin)

(***************************************************************************)
(* Strings and the parser.  A string is a sequence of one-character        *)
(* strings.  A parsed channel is a plain integer (units of 1), a parsed    *)
(* alpha is in units of 1/100000.                                          *)
(***************************************************************************)
\* the number NaN, which parseInt and parseFloat give for no digits
NaN == -999999

HexDigits == <<"0", "1", "2", "3", "4", "5", "6", "7", "8", "9",
               "a", "b", "c", "d", "e", "f">>
UpperCase == <<"A", "B", "C", "D", "E", "F", "G", "H", "I", "J", "K", "L", "M",
               "N", "O", "P", "Q", "R", "S", "T", "U", "V", "W", "X", "Y", "Z">>
LowerCase == <<"a", "b", "c", "d", "e", "f", "g", "h", "i", "j", "k", "l", "m",
               "n", "o", "p", "q", "r", "s", "t", "u", "v", "w", "x", "y", "z">>

IsHexDigit(ch) == \E i \in 1..16 : HexDigits[i] = ch
HexValue(ch) == (CHOOSE i \in 1..16 : HexDigits[i] = ch) - 1
IsDecDigit(ch) == \E i \in 1..10 : HexDigits[i] = ch

\* s.toLowerCase()
toLowerCase(s) ==
    [i \in 1..Len(s) |->
        IF \E k \in 1..26 : UpperCase[k] = s[i]
        THEN LowerCase[CHOOSE k \in 1..26 : UpperCase[k] = s[i]]
        ELSE s[i]]

RECURSIVE trimStart(_)
trimStart(s) == IF s # <<>> /\ Head(s) = " " THEN trimStart(Tail(s)) ELSE s

RECURSIVE trimEnd(_)
trimEnd(s) ==
    IF s # <<>> /\ s[Len(s)] = " " THEN trimEnd(SubSeq(s, 1, Len(s) - 1)) ELSE s

\* s.trim()
trim(s) == trimEnd(trimStart(s))

\* s.slice(k): the string from the 0-based position k
slice(s, k) == IF k >= Len(s) THEN <<>> ELSE SubSeq(s, k + 1, Len(s))

\* s[k] for a 0-based position k: "" stands for undefined
charAt(s, k) == IF k < Len(s) THEN s[k + 1] ELSE ""

RECURSIVE split(_, _)
\* s.split(','): the parts of s between commas; cur is the part being read
split(s, cur) ==
    IF s = <<>> THEN << cur >>
    ELSE IF Head(s) = "," THEN << cur >> \o split(Tail(s), <<>>)
    ELSE split(Tail(s), Append(cur, Head(s)))

RECURSIVE hexPrefix(_)
\* the longest prefix of s made of hexadecimal digits
hexPrefix(s) ==
    IF s # <<>> /\ IsHexDigit(Head(s)) THEN << Head(s) >> \o hexPrefix(Tail(s))
    ELSE <<>>

RECURSIVE decPrefix(_)
\* the longest prefix of s made of decimal digits
decPrefix(s) ==
    IF s # <<>> /\ IsDecDigit(Head(s)) THEN << Head(s) >> \o decPrefix(Tail(s))
    ELSE <<>>

RECURSIVE digitsValue(_, _, _)
\* the number the digits ds spell in the given radix, after acc
digitsValue(ds, radix, acc) ==
    IF ds = <<>> THEN acc
    ELSE digitsValue(Tail(ds), radix, acc * radix + HexValue(Head(ds)))

\* parseInt(s, 16) followed by the ToInt32 that >> and & apply to it: at most
\* 8 digits are read here (the strings parsed have at most 8), and the value of
\* 8 digits is taken modulo 2^32 into -2^31 .. 2^31 - 1.  No digit gives NaN.
parseIntHex(s) ==
    LET ds == hexPrefix(s)
    IN  IF ds = <<>> THEN NaN
        ELSE IF Len(ds) < 8 THEN digitsValue(ds, 16, 0)
        ELSE LET top == HexValue(ds[1])
             IN  (IF top >= 8 THEN top - 16 ELSE top) * 268435456
                 + digitsValue(SubSeq(ds, 2, 8), 16, 0)

\* x >> k for an int32 x (NaN is 0 under ToInt32)
shiftRight(x, k) == IF x = NaN THEN 0 ELSE x \div (2 ^ k)

\* x & 255
and255(x) == x % 256

\* parseInt(s): leading blanks are skipped, then decimal digits are read
parseInt(s) ==
    LET ds == decPrefix(trimStart(s))
    IN  IF ds = <<>> THEN NaN ELSE digitsValue(ds, 10, 0)

\* the first k digits of ds, padded with "0" to k digits
padDigits(ds, k) == [i \in 1..k |-> IF i <= Len(ds) THEN ds[i] ELSE "0"]

\* parseFloat(s) in units of 1/100000: blanks, digits, then "." and digits
parseFloat(s) ==
    LET t == trimStart(s)
        ip == decPrefix(t)
        rest == slice(t, Len(ip))
        fp == IF rest # <<>> /\ Head(rest) = "." THEN decPrefix(Tail(rest)) ELSE <<>>
    IN  IF ip = <<>> /\ fp = <<>> THEN NaN
        ELSE digitsValue(ip, 10, 0) * AlphaUnit + digitsValue(padDigits(fp, 5), 10, 0)

\* names: the colour keywords (a part of the table of line 282 on)
names ==
    [n \in { <<"b", "l", "a", "c", "k">>, <<"w", "h", "i", "t", "e">>,
             <<"r", "e", "d">>, <<"a", "q", "u", "a">>,
             <<"p", "u", "r", "p", "l", "e">>, <<"g", "r", "a", "y">> } |->
        CASE n = <<"b", "l", "a", "c", "k">> -> <<"0", "0", "0">>
          [] n = <<"w", "h", "i", "t", "e">> -> <<"f", "f", "f">>
          [] n = <<"r", "e", "d">> -> <<"f", "0", "0">>
          [] n = <<"a", "q", "u", "a">> -> <<"0", "f", "f">>
          [] n = <<"p", "u", "r", "p", "l", "e">> -> <<"8", "0", "0", "0", "8", "0">>
          [] n = <<"g", "r", "a", "y">> -> <<"8", "0", "8", "0", "8", "0">>]

transparent == <<"t", "r", "a", "n", "s", "p", "a", "r", "e", "n", "t">>

\* a parse result: null, or the object x with r, g, b, a
nullResult == [isNull |-> TRUE, r |-> 0, g |-> 0, b |-> 0, a |-> 0]
objectResult(r, g, b, a) == [isNull |-> FALSE, r |-> r, g |-> g, b |-> b, a |-> a]

\* '#' + s[1] + s[1] + s[2] + s[2] + s[3] + s[3] + (n > 4 ? s[4] + s[4] : '')
expandShorthand(s) ==
    <<"#", s[2], s[2], s[3], s[3], s[4], s[4]>>
    \o (IF Len(s) > 4 THEN <<s[5], s[5]>> ELSE <<>>)

\* the hex forms with the mask & 255 left out of r in the 8-digit form
parseHexFormUnmasked(s0) ==
    LET n == Len(s0)
    IN  IF n = 8 \/ n = 6 \/ n < 4 THEN nullResult
        ELSE LET s1 == IF n < 6 THEN expandShorthand(s0) ELSE s0
                 s == parseIntHex(slice(s1, 1))
             IN  IF n = 9 \/ n = 5
                 THEN objectResult(shiftRight(s, 24),
                                   and255(shiftRight(s, 16)),
                                   and255(shiftRight(s, 8)),
                                   RoundDiv(and255(shiftRight(s, 0)) * 1000, 255) * 100)
                 ELSE objectResult(shiftRight(s, 16),
                                   and255(shiftRight(s, 8)),
                                   and255(shiftRight(s, 0)),
                                   AlphaUnit)

\* the else branch of line 262: the hex forms, n = s.length <= 9
parseHexForm(s0) ==
    LET n == Len(s0)
    IN  IF n = 8 \/ n = 6 \/ n < 4 THEN nullResult
        ELSE LET s1 == IF n < 6 THEN expandShorthand(s0) ELSE s0
                 s == parseIntHex(slice(s1, 1))
             IN  IF n = 9 \/ n = 5
                 THEN objectResult(and255(shiftRight(s, 24)),
                                   and255(shiftRight(s, 16)),
                                   and255(shiftRight(s, 8)),
                                   RoundDiv(and255(shiftRight(s, 0)) * 1000, 255) * 100)
                 ELSE objectResult(shiftRight(s, 16),
                                   and255(shiftRight(s, 8)),
                                   and255(shiftRight(s, 0)),
                                   AlphaUnit)

\* the branch of line 254: the functional forms, s.length > 9
parseFunctionalForm(s0) ==
    LET parts == split(s0, <<>>)
        n == Len(parts)
    IN  IF n < 3 \/ n > 4 THEN nullResult
        ELSE LET r == parts[1]
                 a == IF n = 4 THEN parts[4] ELSE <<>>
             IN  objectResult(
                    parseInt(IF charAt(r, 3) = "a" THEN slice(r, 5) ELSE slice(r, 4)),
                    parseInt(parts[2]),
                    parseInt(parts[3]),
                    IF a # <<>> THEN parseFloat(a) ELSE AlphaUnit)

stringInputToObject(str) ==
    LET s0 == toLowerCase(trim(str))
        named == s0 \in DOMAIN names
        s == IF named THEN <<"#">> \o names[s0] ELSE s0
    IN  IF ~named /\ s0 = transparent THEN objectResult(0, 0, 0, 0)
        ELSE IF charAt(s, 0) # "r" /\ charAt(s, 0) # "#" THEN nullResult
        ELSE IF Len(s) > 9 THEN parseFunctionalForm(s)
        ELSE parseHexForm(s)

\* a parsed channel in hundredths
scaleChannel(x) == IF x = NaN THEN NaN ELSE x * ChannelUnit

\* new webcolor(c) for a string c: what the constructor does with the result
\* of stringInputToObject.  typeof null is 'object', and reading c['r'] of
\* null throws a TypeError.
webcolorFromString(str) ==
    LET c == stringInputToObject(str)
    IN  IF c.isNull
        THEN [kind |-> "TypeError", obj |-> prototype]
        ELSE [kind |-> "object",
              obj |-> webcolorFromObject([r |-> scaleChannel(c.r),
                                          g |-> scaleChannel(c.g),
                                          b |-> scaleChannel(c.b),
                                          a |-> c.a])]

(***************************************************************************)
(* The methods of a colour value, as functions of the receiver             *)
(***************************************************************************)
\* the two hexadecimal digits of a byte
hexByte(v) == <<HexDigits[(v \div 16) + 1], HexDigits[(v % 16) + 1]>>

\* toString(format): the string, held as the tuple of its parts.  The number
\* round(a * 1000) / 1000 is held as the integer round(a * 1000), and the hex
\* form is the digits of each byte (r, g, b rounded within 0 .. 255).
toString(o, format) ==
    LET a == (o.a = AlphaUnit)
    IN  IF format = "hex"
        THEN <<"#">> \o hexByte(roundChannel(o.r)) \o hexByte(roundChannel(o.g))
                     \o hexByte(roundChannel(o.b))
                     \o (IF a THEN <<>> ELSE hexByte(RoundDiv(o.a * 255, AlphaUnit)))
        ELSE IF a
             THEN <<"rgb", roundChannel(o.r), roundChannel(o.g), roundChannel(o.b)>>
             ELSE <<"rgba", roundChannel(o.r), roundChannel(o.g), roundChannel(o.b),
                    RoundDiv(o.a * 1000, AlphaUnit)>>

\* equals(c1): this.toString() === c1.toString()
equals(o, c1) == toString(o, "rgb") = toString(c1, "rgb")

\* a result that is null, and a result that is a colour
nullColor == [isNull |-> TRUE, obj |-> prototype]
someColor(o) == [isNull |-> FALSE, obj |-> o]

\* withAlpha taking 1 as a percentage: a >= 1 for a > 1
withAlphaInclusive(o, a0) ==
    LET a == IF a0 >= AlphaUnit /\ a0 <= 100 * AlphaUnit THEN RoundDiv(a0, 100) ELSE a0
    IN  IF a >= 0 /\ a <= AlphaUnit
        THEN someColor(webcolorFromObject([r |-> o.r, g |-> o.g, b |-> o.b, a |-> a]))
        ELSE nullColor

\* withAlpha(a), a in units of 1/100000
withAlpha(o, a0) ==
    LET a == IF a0 > AlphaUnit /\ a0 <= 100 * AlphaUnit THEN RoundDiv(a0, 100) ELSE a0
    IN  IF a >= 0 /\ a <= AlphaUnit
        THEN someColor(webcolorFromObject([r |-> o.r, g |-> o.g, b |-> o.b, a |-> a]))
        ELSE nullColor

\* invert()
invert(o) ==
    webcolorFromObject([r |-> 255 * ChannelUnit - o.r, g |-> 255 * ChannelUnit - o.g,
                        b |-> 255 * ChannelUnit - o.b, a |-> o.a])

\* (P * x + p * t) / 10 for the squares x and t, P + p = 10, without
\* leaving 32 bits: x = 10 qx + rx, t = 10 qt + rt
blendSquares(x, t, P, p) ==
    P * (x \div 10) + p * (t \div 10) + RoundDiv(P * (x % 10) + p * (t % 10), 10)

\* one channel of shadeBlend; p is |p| in tenths, P is 1 - |p| in tenths
shadeChannel(x, t, P, p, l) ==
    IF l THEN RoundDiv(P * x + p * t, 10)
    ELSE Sqrt(blendSquares(x * x, t * t, P, p))

\* shadeBlend(p, c1, l): p in tenths; c1 is <<>> for null or << colour >>
shadeBlend(o, p0, c1, l) ==
    IF p0 < -10 \/ p0 > 10 THEN nullColor
    ELSE LET neg == p0 < 0
             t == IF c1 # <<>> THEN c1[1]
                  ELSE IF neg THEN [r |-> 0, g |-> 0, b |-> 0, a |-> AlphaUnit]
                  ELSE [r |-> 255 * ChannelUnit, g |-> 255 * ChannelUnit,
                        b |-> 255 * ChannelUnit, a |-> AlphaUnit]
             p == IF neg THEN p0 * (-1) ELSE p0
             P == 10 - p
             fa == IF o.a >= 0 \/ t.a >= 0
                   THEN IF o.a < 0 THEN t.a
                        ELSE IF t.a < 0 THEN o.a
                        ELSE RoundDiv(o.a * P + t.a * p, 10)
                   ELSE AlphaUnit
         IN  someColor(webcolorFromObject(
                 [r |-> shadeChannel(o.r, t.r, P, p, l),
                  g |-> shadeChannel(o.g, t.g, P, p, l),
                  b |-> shadeChannel(o.b, t.b, P, p, l),
                  a |-> fa]))

\* this.contrastRatio('#000000') and this.contrastRatio('#ffffff')
blackString == <<"#", "0", "0", "0", "0", "0", "0">>
whiteString == <<"#", "f", "f", "f", "f", "f", "f">>
contrastToString(o, str) == contrastRatio(o, webcolorFromString(str).obj)

\* the shade direction with the two branches of each test exchanged
shadeDirectionSwapped(o, targetcolor, cmin) ==
    LET tl == getLuminance(targetcolor)
        l == getLuminance(o)
    IN  IF tl = l THEN (IF isDark(o) THEN 1 ELSE -1)
        ELSE IF tl < l
             THEN (IF RatioGreater(contrastToString(o, blackString), cmin) THEN 1 ELSE -1)
             ELSE (IF RatioGreater(contrastToString(o, whiteString), cmin) THEN -1 ELSE 1)

\* lines 181 to 190: the shade direction sd, -1 to darken and 1 to lighten
shadeDirection(o, targetcolor, cmin) ==
    LET tl == getLuminance(targetcolor)
        l == getLuminance(o)
    IN  IF tl = l THEN (IF isDark(o) THEN 1 ELSE -1)
        ELSE IF tl < l
             THEN (IF RatioGreater(contrastToString(o, blackString), cmin) THEN -1 ELSE 1)
             ELSE (IF RatioGreater(contrastToString(o, whiteString), cmin) THEN 1 ELSE -1)

\* the loop condition with > for <
loopConditionInverted(o, targetcolor, cmin, reached) ==
    RatioGreater(contrastRatio(o, targetcolor), cmin) /\ ~reached

\* line 176: the condition of the while loop
loopCondition(o, targetcolor, cmin, reached) ==
    RatioLess(contrastRatio(o, targetcolor), cmin) /\ ~reached

\* line 191: targetcolor.shadeBlend(0.2 * sd)
shadeStep(targetcolor, sd) == shadeBlend(targetcolor, 2 * sd, <<>>, FALSE).obj

\* line 192: targetcolor.isBlack() || targetcolor.isWhite()
atExtreme(targetcolor) == isBlack(targetcolor) \/ isWhite(targetcolor)

\* lines 196, 197: the result when no target colour is given
contrastingDefault(o) ==
    IF isDark(o)
    THEN webcolorFromObject([r |-> 255 * ChannelUnit, b |-> 255 * ChannelUnit,
                             g |-> 255 * ChannelUnit])
    ELSE webcolorFromObject([r |-> 0, b |-> 0, g |-> 0])

(***************************************************************************)
(* The inputs                                                              *)
(***************************************************************************)
grey(v) == [r |-> v * ChannelUnit, g |-> v * ChannelUnit, b |-> v * ChannelUnit]

\* {r: 0, g: 196, b: 88.80}: a dark colour (brightness 125.2) whose relative
\* luminance is that of #aaaaaa; in doubles the two luminances are the same
\* number, 0.4019777798321958, for b = 88.80057296497954
tieBase == [r |-> 0, g |-> 19600, b |-> 8880]

\* the objects the caller constructs colour values from
Colors ==
    { grey(51), grey(204),
      [r |-> 6700, g |-> 19600, b |-> 300, a |-> 60000],
      [r |-> 16238, g |-> 16238, b |-> 16238, a |-> 99960],
      [r |-> 16200, g |-> 16200, b |-> 16200, a |-> 100000] }

\* the base colours and the target colours of the contrast search
Bases ==
    { grey(0), grey(51), grey(68), grey(119), grey(127), grey(128), grey(187),
      grey(204), grey(238), grey(255),
      [r |-> 6700, g |-> 19600, b |-> 300, a |-> 60000] }

\* base colours with channels that are no integers: tieBase, and the colour
\* that contrastingColor('#444') of #333 returns
FractionalBases == { tieBase, [r |-> 16238, g |-> 16238, b |-> 16238] }

Targets ==
    { grey(0), grey(34), grey(68), grey(170), grey(204), grey(238), grey(255),
      [r |-> 20000, g |-> 3000, b |-> 3000] }

\* the target colours given as strings
TargetStrings == { <<"#", "4", "4", "4">>, <<"#", "2", "2", "2">> }

\* the largest minimum contrast ratio of the contrast search, in halves (7.0)
MaxRatio == 14

\* the minimum contrast ratios of the contrast search, in tenths: 1.5, 2, ...,
\* 4.5 (the default), ..., 7
Ratios == { 5 * k : k \in 3..MaxRatio }

\* the minimum contrast ratios of the other calls: the default 4.5, and 7
SomeRatios == {45, 70}

\* the alpha values given to withAlpha, in units of 1/100000:
\* -0.5, 0, 0.4, 1, 1.001, 40, 100, 100.001, 250
Alphas == {-50000, 0, 40000, 100000, 100100, 4000000, 10000000, 10000100, 25000000}

\* the shade amounts given to shadeBlend, in tenths
Amounts == {-11, -2, 5, 11}

(***************************************************************************)
(* The state: the caller holds two colour values, objs[1] and objs[2], and *)
(* calls the methods of one with the other as argument.  ret is what the   *)
(* last call returned, call is the call, and while contrastingColor runs   *)
(* (pc = "loop") targetcolor is objs[candRef], or cand when candRef = 0.   *)
(* lastStep and seen are history: the last turn of the loop, and r, g, b,  *)
(* a of the target colours the loop has had in this call.                  *)
(***************************************************************************)
noCall == [op |-> "", self |-> 0, arg |-> 0, str |-> <<>>, num |-> 0, flag |-> FALSE]
noRet == [kind |-> "none", obj |-> prototype, ref |-> 0, val |-> 0]
noStep == [tl |-> 0, l |-> 0, sd |-> 0, before |-> prototype]

retValue(kind, v) == [kind |-> kind, obj |-> prototype, ref |-> 0, val |-> v]
retColor(o, ref) == [kind |-> "color", obj |-> o, ref |-> ref, val |-> 0]
retOptional(c) == IF c.isNull THEN [noRet EXCEPT !.kind = "null"] ELSE retColor(c.obj, 0)

targetcolor == IF candRef # 0 THEN objs[candRef] ELSE cand

\* the state after the two colour values were constructed
Constructed(pairs) ==
    /\ objs \in { <<webcolorFromObject(c[1]), webcolorFromObject(c[2])>> : c \in pairs }
    /\ pc = "idle"
    /\ call = noCall
    /\ cand = prototype
    /\ candRef = 0
    /\ maxReached = FALSE
    /\ lastStep = noStep
    /\ seen = {}
    /\ ret = noRet
    /\ input = <<>>
    /\ outcome = [kind |-> "none", obj |-> prototype]

Init == Constructed(Colors \X Colors)

\* the contrast search: every base with every target, and with itself
SearchInit == Constructed((Bases \X Targets) \cup { <<c, c>> : c \in Bases })

\* what every call that returns at once leaves alone
idleFrame == UNCHANGED <<pc, cand, candRef, maxReached, lastStep, seen, input, outcome>>

CallToString(i, format) ==
    /\ pc = "idle"
    /\ call' = [noCall EXCEPT !.op = "toString", !.self = i, !.str = format]
    /\ ret' = retValue("string", toString(objs[i], format))
    /\ UNCHANGED objs
    /\ idleFrame

CallIsDark(i) ==
    /\ pc = "idle"
    /\ call' = [noCall EXCEPT !.op = "isDark", !.self = i]
    /\ ret' = retValue("bool", isDark(objs[i]))
    /\ objs' = [objs EXCEPT ![i] = withCb(@)]
    /\ idleFrame

CallIsBlack(i) ==
    /\ pc = "idle"
    /\ call' = [noCall EXCEPT !.op = "isBlack", !.self = i]
    /\ ret' = retValue("bool", isBlack(objs[i]))
    /\ UNCHANGED objs
    /\ idleFrame

CallIsWhite(i) ==
    /\ pc = "idle"
    /\ call' = [noCall EXCEPT !.op = "isWhite", !.self = i]
    /\ ret' = retValue("bool", isWhite(objs[i]))
    /\ UNCHANGED objs
    /\ idleFrame

CallGetBrightness(i) ==
    /\ pc = "idle"
    /\ call' = [noCall EXCEPT !.op = "getBrightness", !.self = i]
    /\ ret' = retValue("number", getBrightness(objs[i]))
    /\ objs' = [objs EXCEPT ![i] = withCb(@)]
    /\ idleFrame

CallGetLuminance(i) ==
    /\ pc = "idle"
    /\ call' = [noCall EXCEPT !.op = "getLuminance", !.self = i]
    /\ ret' = retValue("number", getLuminance(objs[i]))
    /\ objs' = [objs EXCEPT ![i] = withRl(@)]
    /\ idleFrame

CallContrastRatio(i, j) ==
    /\ pc = "idle"
    /\ call' = [noCall EXCEPT !.op = "contrastRatio", !.self = i, !.arg = j]
    /\ ret' = retValue("ratio", contrastRatio(objs[i], objs[j]))
    /\ objs' = [k \in 1..2 |-> IF k = i \/ k = j THEN withRl(objs[k]) ELSE objs[k]]
    /\ idleFrame

CallEquals(i, j) ==
    /\ pc = "idle"
    /\ call' = [noCall EXCEPT !.op = "equals", !.self = i, !.arg = j]
    /\ ret' = retValue("bool", equals(objs[i], objs[j]))
    /\ UNCHANGED objs
    /\ idleFrame

CallWithAlpha(i, a) ==
    /\ pc = "idle"
    /\ call' = [noCall EXCEPT !.op = "withAlpha", !.self = i, !.num = a]
    /\ ret' = retOptional(withAlpha(objs[i], a))
    /\ UNCHANGED objs
    /\ idleFrame

CallInvert(i) ==
    /\ pc = "idle"
    /\ call' = [noCall EXCEPT !.op = "invert", !.self = i]
    /\ ret' = retColor(invert(objs[i]), 0)
    /\ UNCHANGED objs
    /\ idleFrame

\* shadeBlend(p, c1, l): j = 0 is no c1
CallShadeBlend(i, p, j, l) ==
    /\ pc = "idle"
    /\ call' = [noCall EXCEPT !.op = "shadeBlend", !.self = i, !.arg = j,
                              !.num = p, !.flag = l]
    /\ ret' = retOptional(shadeBlend(objs[i], p, IF j = 0 THEN <<>> ELSE <<objs[j]>>, l))
    /\ UNCHANGED objs
    /\ idleFrame

\* contrastingColor(null, cmin): lines 195 to 198
CallContrastingDefault(i, cmin) ==
    /\ pc = "idle"
    /\ call' = [noCall EXCEPT !.op = "contrastingColor", !.self = i, !.num = cmin]
    /\ ret' = retColor(contrastingDefault(objs[i]), 0)
    /\ objs' = [objs EXCEPT ![i] = withCb(@)]
    /\ idleFrame

\* contrastingColor(objs[j], cmin): lines 173 to 175; a colour value is
\* taken as it is by webcolor(targetcolor)
CallContrastingColor(i, j, cmin) ==
    /\ pc = "idle"
    /\ call' = [noCall EXCEPT !.op = "contrastingColor", !.self = i, !.arg = j,
                              !.num = cmin]
    /\ pc' = "loop"
    /\ candRef' = j
    /\ cand' = prototype
    /\ maxReached' = FALSE
    /\ lastStep' = noStep
    /\ seen' = {}
    /\ ret' = noRet
    /\ UNCHANGED <<objs, input, outcome>>

\* contrastingColor(str, cmin): the target colour is parsed from a string
CallContrastingString(i, str, cmin) ==
    /\ pc = "idle"
    /\ webcolorFromString(str).kind = "object"
    /\ call' = [noCall EXCEPT !.op = "contrastingColor", !.self = i, !.str = str,
                              !.num = cmin]
    /\ pc' = "loop"
    /\ candRef' = 0
    /\ cand' = webcolorFromString(str).obj
    /\ maxReached' = FALSE
    /\ lastStep' = noStep
    /\ seen' = {}
    /\ ret' = noRet
    /\ UNCHANGED <<objs, input, outcome>>

\* the memo fields after the loop condition was evaluated: this.rl and the
\* target's rl are set
afterCondition(os, self, ref) ==
    [k \in 1..2 |-> IF k = self \/ k = ref THEN withRl(os[k]) ELSE os[k]]

\* one turn of the while loop, lines 176 to 193
LoopIterate ==
    /\ pc = "loop"
    /\ loopCondition(objs[call.self], targetcolor, call.num, maxReached)
    /\ LET self == objs[call.self]
           tl == getLuminance(targetcolor)
           l == getLuminance(self)
           sd == shadeDirection(self, targetcolor, call.num)
           next == shadeStep(targetcolor, sd)
       IN  /\ cand' = next
           /\ candRef' = 0
           /\ maxReached' = atExtreme(next)
           /\ lastStep' = [tl |-> tl, l |-> l, sd |-> sd, before |-> targetcolor]
           /\ seen' = seen \cup {rgba(targetcolor)}
           /\ objs' = [k \in 1..2 |->
                         LET o == afterCondition(objs, call.self, candRef)[k]
                         IN  IF k = call.self /\ tl = l THEN withCb(o) ELSE o]
    /\ UNCHANGED <<pc, call, ret, input, outcome>>

\* the loop ends and line 194 returns targetcolor
LoopReturn ==
    /\ pc = "loop"
    /\ ~loopCondition(objs[call.self], targetcolor, call.num, maxReached)
    /\ pc' = "idle"
    /\ ret' = retColor(withRl(targetcolor), candRef)
    /\ objs' = afterCondition(objs, call.self, candRef)
    /\ cand' = prototype
    /\ candRef' = 0
    /\ maxReached' = FALSE
    /\ lastStep' = noStep
    /\ seen' = {}
    /\ UNCHANGED <<call, input, outcome>>

\* the caller calls the methods of objs[1], with objs[2] where a colour is taken
Next ==
    \/ \E format \in {"rgb", "hex"} : CallToString(1, format)
    \/ CallIsDark(1)
    \/ CallIsBlack(1)
    \/ CallIsWhite(1)
    \/ CallGetBrightness(1)
    \/ CallGetLuminance(1)
    \/ CallContrastRatio(1, 2)
    \/ CallEquals(1, 2)
    \/ \E a \in Alphas : CallWithAlpha(1, a)
    \/ CallInvert(1)
    \/ \E p \in Amounts : \E j \in {0, 2} : \E l \in BOOLEAN : CallShadeBlend(1, p, j, l)
    \/ \E cmin \in SomeRatios : CallContrastingDefault(1, cmin)
    \/ \E cmin \in SomeRatios : CallContrastingColor(1, 2, cmin)
    \/ \E str \in TargetStrings : \E cmin \in SomeRatios : CallContrastingString(1, str, cmin)
    \/ LoopIterate
    \/ LoopReturn

Spec == Init /\ [][Next]_vars

\* the contrast search: one call of contrastingColor on the two colour values
SearchNext ==
    \/ /\ call = noCall
       /\ \/ \E cmin \in Ratios : CallContrastingDefault(1, cmin)
          \/ \E j \in 1..2 : \E cmin \in Ratios : CallContrastingColor(1, j, cmin)
          \/ \E str \in TargetStrings : \E cmin \in Ratios :
                CallContrastingString(1, str, cmin)
    \/ LoopIterate
    \/ LoopReturn

SearchSpec == SearchInit /\ [][SearchNext]_vars

\* the contrast search from the base colours whose channels are no integers
FractionalInit ==
    Constructed((FractionalBases \X Targets) \cup { <<c, c>> : c \in FractionalBases })

FractionalSpec == FractionalInit /\ [][SearchNext]_vars

(***************************************************************************)
(* The constructor called with a string                                    *)
(***************************************************************************)
\* strings of the grammar and strings of no rule
SampleStrings ==
    { <<"b", "l", "a", "c", "k">>,
      <<" ", "B", "l", "a", "c", "k", " ">>,
      <<"p", "u", "r", "p", "l", "e">>,
      <<"t", "r", "a", "n", "s", "p", "a", "r", "e", "n", "t">>,
      <<"r", "g", "b", "(", "1", "2", "8", ",", "0", ",", "1", "2", "8", ")">>,
      <<"r", "g", "b", "a", "(", "1", "2", "8", ",", "0", ",", "1", "2", "8", ",",
        " ", "0", ".", "4", ")">>,
      <<"r", "g", "b", "(", "x", "x", "x", ",", "y", ",", "z", ")">>,
      <<>>,
      <<"f", "o", "o">>,
      <<"1", "2", "8", ",", "0", ",", "1", "2", "8">>,
      <<"h", "s", "l", "(", "0", ",", "0", "%", ",", "0", "%", ")">>,
      <<"#">>,
      <<"#", "1">>,
      <<"#", "1", "2">>,
      <<"#", "1", "2", "3", "4", "5">>,
      <<"#", "1", "2", "3", "4", "5", "6", "7">>,
      <<"#", "1", "2", "3", "4", "5", "6", "7", "8", "9", "0">>,
      <<"#", "g", "g", "g">>,
      <<"r">>,
      <<"r", "g", "b">>,
      <<"r", "g", "b", "(", "1">>,
      <<"r", "g", "b", "(", "1", ")">>,
      <<"r", "g", "b", "(", "1", ",", "2", ")">>,
      <<"r", "g", "b", "(", "1", "0", ",", "2", "0", ")", " ", "x">>,
      <<"r", "g", "b", "a", "(", "1", ",", "2", ",", "3", ",", "4", ",", "5", ")">> }

\* the digits the generated hex strings are made of
SomeDigits == {"0", "3", "9", "A", "f"}
AllDigits == { HexDigits[i] : i \in 1..16 }
SomeTriples ==
    { <<"4", "3", "C", "4", "0", "3">>, <<"f", "f", "3", "3", "a", "a">>,
      <<"0", "0", "0", "0", "0", "0">>, <<"F", "F", "F", "F", "F", "F">>,
      <<"8", "0", "0", "1", "7", "f">>, <<"f", "e", "d", "c", "b", "a">> }

\* '#' and 3, 4, 6 or 8 hexadecimal digits
HexStrings ==
    { <<"#", x, y, z>> : x \in SomeDigits, y \in SomeDigits, z \in SomeDigits }
    \cup { <<"#", x, y, z, w>> : x \in {"4", "F"}, y \in SomeDigits, z \in {"0", "a"},
                                 w \in AllDigits }
    \cup { <<"#", x, x, y, y, z, z>> :
                x \in SomeDigits, y \in SomeDigits, z \in SomeDigits }
    \cup { <<"#">> \o t : t \in SomeTriples }
    \cup { <<"#">> \o t \o <<v, w>> : t \in SomeTriples, v \in AllDigits, w \in AllDigits }

InputStrings == SampleStrings \cup HexStrings

ParseInit ==
    /\ objs = <<prototype, prototype>>
    /\ pc = "idle"
    /\ call = noCall
    /\ cand = prototype
    /\ candRef = 0
    /\ maxReached = FALSE
    /\ lastStep = noStep
    /\ seen = {}
    /\ ret = noRet
    /\ input = <<>>
    /\ outcome = [kind |-> "none", obj |-> prototype]

\* webcolor(str), lines 23 to 30: one colour is constructed from one string
Construct(str) ==
    /\ outcome.kind = "none"
    /\ input' = str
    /\ outcome' = webcolorFromString(str)
    /\ UNCHANGED <<objs, pc, call, cand, candRef, maxReached, lastStep, seen, ret>>

ParseNext == \E str \in InputStrings : Construct(str)

ParseSpec == ParseInit /\ [][ParseNext]_vars

(***************************************************************************)
(* The properties                                                          *)
(***************************************************************************)
\* the base colour and the minimum ratio of the running or last call
base == objs[1]
whiteChannel == 255 * ChannelUnit

\* contrastingColor was called with a target colour
targetGiven == call.op = "contrastingColor" /\ (call.arg # 0 \/ call.str # <<>>)

\* contrastingColor with a target colour has returned
searchReturned == targetGiven /\ pc = "idle" /\ ret.kind = "color"

\* the luminance of a colour from its channels, and the contrast of two
\* luminances against a minimum ratio in tenths
lum(o) == computeLuminance(o)
contrastAtLeast(l0, l1, cmin) == 10 * (Max(l0, l1) + 5000) >= cmin * (Min(l0, l1) + 5000)
contrastAbove(l0, l1, cmin) == 10 * (Max(l0, l1) + 5000) > cmin * (Min(l0, l1) + 5000)
contrastBelow(l0, l1, cmin) == 10 * (Max(l0, l1) + 5000) < cmin * (Min(l0, l1) + 5000)

\* the base reaches the minimum ratio against pure black, against pure white
blackExceeds == contrastAbove(lum(base), 0, call.num)
whiteExceeds == contrastAbove(lum(base), 100000, call.num)

\* the loop is at a target colour it was at before, with the same flag: every
\* turn is a function of the target colour and the flag, so the loop repeats
\* from here for ever
repeating == pc = "loop" /\ ~maxReached /\ rgba(targetcolor) \in seen

\* C1: contrastingColor(target, minRatio) always terminates: the loop reaches
\* its exit after finitely many turns, so it is never back at a target colour
\* it had before.
C1_SearchTerminates == ~repeating

\* C2: whenever contrastingColor with a target returns, the returned colour has
\* a contrast ratio against the base of at least minRatio, or is pure black or
\* pure white.
C2_ResultReachesRatioOrExtreme ==
    searchReturned =>
        \/ contrastAtLeast(lum(base), lum(ret.obj), call.num)
        \/ ret.obj.r = 0 /\ ret.obj.g = 0 /\ ret.obj.b = 0
        \/ ret.obj.r = whiteChannel /\ ret.obj.g = whiteChannel /\ ret.obj.b = whiteChannel

\* #333 with the target '#444' and the ratio 4.5 returned rgb(162,162,162)
C2_Witness ==
    /\ searchReturned
    /\ rgba(base) = <<5100, 5100, 5100, AlphaUnit>>
    /\ call.str = <<"#", "4", "4", "4">>
    /\ call.num = 45
    /\ toString(ret.obj, "rgb") = <<"rgb", 162, 162, 162>>

\* the string after trim and toLowerCase
normalInput == toLowerCase(trim(input))

\* the string matches no rule of the grammar
matchesNoRule ==
    LET s == normalInput
    IN  /\ s \notin DOMAIN names
        /\ s # transparent
        /\ \/ charAt(s, 0) \notin {"r", "#"}
           \/ Len(s) <= 9 /\ (Len(s) < 4 \/ Len(s) = 6 \/ Len(s) = 8)
           \/ Len(s) > 9 /\ Len(split(s, <<>>)) \notin {3, 4}

\* C3: constructing a colour from a string that matches no grammar rule yields
\* a failure value and never throws.
C3_NoRuleNeverThrows ==
    (outcome.kind # "none" /\ matchesNoRule) => outcome.kind # "TypeError"

\* the base has headroom on the black side only, on the white side only
blackSideOnly ==
    /\ contrastAbove(lum(base), 0, call.num)
    /\ contrastBelow(lum(base), 100000, call.num)
whiteSideOnly ==
    /\ contrastAbove(lum(base), 100000, call.num)
    /\ contrastBelow(lum(base), 0, call.num)

\* the returned colour is on the side that has headroom and reaches the ratio
onHeadroomSide ==
    /\ blackSideOnly => lum(ret.obj) < lum(base)
    /\ whiteSideOnly => lum(ret.obj) > lum(base)
    /\ contrastAtLeast(lum(base), lum(ret.obj), call.num)

\* C4: when the base has a contrast ratio above minRatio against exactly one of
\* pure black and pure white and below it against the other, contrastingColor
\* returns, for every target, a colour on the side that has headroom, with a
\* contrast ratio of at least minRatio: the loop does not repeat for ever, and
\* what is returned is on that side.
C4_ReturnsOnHeadroomSide ==
    (targetGiven /\ (blackSideOnly \/ whiteSideOnly)) =>
        /\ ~repeating
        /\ searchReturned => onHeadroomSide

\* the part of C4 about what is returned, without the part about returning:
\* whatever contrastingColor returns is on the side that has headroom
C4_ReturnedOnHeadroomSide ==
    (searchReturned /\ (blackSideOnly \/ whiteSideOnly)) => onHeadroomSide

\* C5: r, g, b and a of a colour value never change after construction: no call
\* changes them in the receiver or in the argument.
C5_FieldsNeverChange ==
    [][\A k \in 1..2 : rgba(objs'[k]) = rgba(objs[k])]_vars

\* contrastingColor ran its loop on the caller's target and set the memo fields
C5_Witness ==
    /\ searchReturned
    /\ call.arg = 2
    /\ ret.ref = 0
    /\ objs[1].rl # Null
    /\ objs[2].rl # Null
    /\ rgba(ret.obj) # rgba(objs[2])

\* the value of a hexadecimal digit of either case
digitOf(ch) ==
    IF IsHexDigit(ch) THEN HexValue(ch)
    ELSE 9 + (CHOOSE k \in 1..6 : UpperCase[k] = ch)
isDigit(ch) == IsHexDigit(ch) \/ \E k \in 1..6 : UpperCase[k] = ch

\* the input is '#' followed by k hexadecimal digits
hexInput(k) ==
    /\ Len(input) = k + 1
    /\ input[1] = "#"
    /\ \A i \in 2..(k + 1) : isDigit(input[i])

\* the n-th byte of the input, n = 1 .. 4
byteOf(n) == 16 * digitOf(input[2 * n]) + digitOf(input[2 * n + 1])

\* v / 255 rounded to 3 decimal places, in thousandths
thousandths(v) == CHOOSE k \in 0..1000 : 2 * Abs(1000 * v - 255 * k) <= 255

\* the input with each digit doubled
doubled == <<"#">> \o [i \in 1..(2 * (Len(input) - 1)) |-> input[((i + 1) \div 2) + 1]]

\* C6: for '#' and 6 or 8 hex digits, r, g, b are the first, second and third
\* byte, and alpha is 1 for 6 digits and the fourth byte / 255 rounded to 3
\* decimal places for 8 digits; '#rgb' and '#rgba' decode as the string with
\* each digit doubled.
C6_HexDecoding ==
    outcome.kind # "none" =>
        /\ (hexInput(6) \/ hexInput(8)) =>
              /\ outcome.kind = "object"
              /\ outcome.obj.r = byteOf(1) * ChannelUnit
              /\ outcome.obj.g = byteOf(2) * ChannelUnit
              /\ outcome.obj.b = byteOf(3) * ChannelUnit
              /\ outcome.obj.a = IF hexInput(6) THEN AlphaUnit
                                 ELSE thousandths(byteOf(4)) * 100
        /\ (hexInput(3) \/ hexInput(4)) => outcome = webcolorFromString(doubled)

\* '#43C40399' was decoded to 67, 196, 3 and alpha 0.6
C6_Witness ==
    /\ input = <<"#", "4", "3", "C", "4", "0", "3", "9", "9">>
    /\ outcome.kind = "object"
    /\ rgba(outcome.obj) = <<6700, 19600, 300, 60000>>

\* two colour values round to the same r, g, b and to the same alpha
sameRounded(c0, c1) ==
    /\ roundChannel(c0.r) = roundChannel(c1.r)
    /\ roundChannel(c0.g) = roundChannel(c1.g)
    /\ roundChannel(c0.b) = roundChannel(c1.b)
    /\ RoundDiv(c0.a * 1000, AlphaUnit) = RoundDiv(c1.a * 1000, AlphaUnit)

\* C7: equals is determined by rounded values: two colour values whose r, g, b
\* round to the same integers and whose alphas round to the same number at 3
\* decimal places are equal.
C7_EqualsByRoundedValues ==
    (call.op = "equals" /\ ret.kind = "bool" /\ sameRounded(objs[1], objs[2]))
        => ret.val = TRUE

\* C8: withAlpha(a) returns a new colour with the receiver's r, g, b and alpha
\* a for a in [0,1], alpha a/100 for a in (1,100], and null for every other a;
\* every colour it returns has alpha in [0,1].
C8_WithAlphaDualScale ==
    call.op = "withAlpha" =>
        LET a == call.num
            same == /\ ret.kind = "color"
                    /\ <<ret.obj.r, ret.obj.g, ret.obj.b>> = <<base.r, base.g, base.b>>
        IN  /\ (0 <= a /\ a <= AlphaUnit) => (same /\ ret.obj.a = a)
            /\ (AlphaUnit < a /\ a <= 100 * AlphaUnit) => (same /\ 100 * ret.obj.a = a)
            /\ (a < 0 \/ a > 100 * AlphaUnit) => ret.kind = "null"
            /\ ret.kind = "color" => (0 <= ret.obj.a /\ ret.obj.a <= AlphaUnit)

\* withAlpha(1) returned the opaque colour
C8_Witness ==
    /\ call.op = "withAlpha"
    /\ call.num = AlphaUnit
    /\ ret.kind = "color"
    /\ ret.obj.a = AlphaUnit

\* C9: contrastingColor() with no target returns pure white, alpha 1, when the
\* brightness (299 r + 587 g + 114 b) / 1000 of the base is below 128, and pure
\* black, alpha 1, otherwise, whatever minRatio and the alpha of the base.
C9_DefaultIsWhiteOrBlack ==
    (call.op = "contrastingColor" /\ ~targetGiven /\ ret.kind = "color") =>
        rgba(ret.obj) =
            IF 299 * base.r + 587 * base.g + 114 * base.b < 128 * 1000 * ChannelUnit
            THEN <<whiteChannel, whiteChannel, whiteChannel, AlphaUnit>>
            ELSE <<0, 0, 0, AlphaUnit>>

\* the base of brightness 127 got pure white
C9_Witness ==
    /\ call.op = "contrastingColor"
    /\ ~targetGiven
    /\ ret.kind = "color"
    /\ base.r = 127 * ChannelUnit /\ base.g = 127 * ChannelUnit /\ base.b = 127 * ChannelUnit
    /\ ret.obj.r = whiteChannel

\* the last turn of the loop darkened, lightened the candidate
darkened ==
    /\ cand.r <= lastStep.before.r /\ cand.g <= lastStep.before.g
    /\ cand.b <= lastStep.before.b
    /\ <<cand.r, cand.g, cand.b>> # <<lastStep.before.r, lastStep.before.g, lastStep.before.b>>
lightened ==
    /\ cand.r >= lastStep.before.r /\ cand.g >= lastStep.before.g
    /\ cand.b >= lastStep.before.b
    /\ <<cand.r, cand.g, cand.b>> # <<lastStep.before.r, lastStep.before.g, lastStep.before.b>>

\* a turn of the loop was just taken
stepTaken == lastStep.sd # 0

\* C10 with the directions as the specification words them: a candidate below the base in luminance is darkened, unless
\* the base's contrast against pure black exceeds minRatio, and then it is
\* lightened; a candidate above the base is lightened, unless the base's
\* contrast against pure white exceeds minRatio, and then it is darkened.
C10_DirectionAsStated ==
    stepTaken =>
        /\ lum(lastStep.before) < lum(base) => IF blackExceeds THEN lightened ELSE darkened
        /\ lum(lastStep.before) > lum(base) => IF whiteExceeds THEN darkened ELSE lightened

\* C10 with the directions the loop takes: a candidate below the base in luminance is darkened when the
\* base's contrast against pure black exceeds minRatio, and lightened
\* otherwise; a candidate above the base is lightened when the base's contrast
\* against pure white exceeds minRatio, and darkened otherwise.
C10_DirectionPolicy ==
    stepTaken =>
        /\ lum(lastStep.before) < lum(base) => IF blackExceeds THEN darkened ELSE lightened
        /\ lum(lastStep.before) > lum(base) => IF whiteExceeds THEN lightened ELSE darkened

\* a candidate darker than the base was darkened, the base having contrast
\* above minRatio against pure black
C10_Witness ==
    /\ stepTaken
    /\ lum(lastStep.before) < lum(base)
    /\ blackExceeds
    /\ darkened

====
